---- MODULE Spec2Model ----
\* Model of the Mehu session controller and transcript (App component):
\* startLiveSession / stopLiveSession / the live-session callbacks
\* (onopen, onmessage, onclose, onerror), addMessage and handleSendText.
\* Every handler runs to its next await on the single event loop, so each
\* action below is one handler segment between two suspension points.
EXTENDS Integers, Sequences, FiniteSets, TLC

\* ---------------------------------------------------------------- bounds
MaxTextLen == 2    \* longest text of a transcription, a submission or a reply
MaxMsgs == 2       \* longest transcript explored
MaxStarts == 2     \* startLiveSession invocations explored
MaxChunks == 2     \* audio chunks (onmessage handlers with audio) explored
MaxDur == 2        \* longest audio chunk, in clock units
MaxTime == 1       \* last instant of the wall clock explored
MaxReq == 2        \* one-shot completion requests explored

\* ---------------------------------------------------------------- texts
\* A text is a sequence of characters; " " is the whitespace character.
Alphabet == {"a", " "}

Texts == UNION {[1..n -> Alphabet] : n \in 0..MaxTextLen}

\* An optional text (a field of the server message that may be absent):
\* <<>> when absent, <<t>> when present with text t.
NoText == <<>>

OptTexts == {NoText} \cup {<<t>> : t \in Texts}

\* String.prototype.includes with the arguments swapped.
IncludesSwapped(text, sub) ==
    \E i \in 1..(Len(sub) - Len(text) + 1) :
        SubSeq(sub, i, i + Len(text) - 1) = text

\* String.prototype.includes: sub occurs in text as a contiguous substring.
Includes(text, sub) ==
    \E i \in 1..(Len(text) - Len(sub) + 1) :
        SubSeq(text, i, i + Len(sub) - 1) = sub

RECURSIVE TrimStart(_)
TrimStart(t) == IF t # <<>> /\ Head(t) = " " THEN TrimStart(Tail(t)) ELSE t

RECURSIVE TrimEnd(_)
TrimEnd(t) ==
    IF t # <<>> /\ t[Len(t)] = " " THEN TrimEnd(SubSeq(t, 1, Len(t) - 1)) ELSE t

\* String.prototype.trim
Trim(t) == TrimEnd(TrimStart(t))

\* The fallback entry of handleSendText's catch branch and the '...'
\* placeholder of an empty reply; both lie outside the input alphabet.
FallbackText == <<"f">>

DotsText == <<".">>

Max(a, b) == IF a >= b THEN a ELSE b

\* ---------------------------------------------------------------- state
VARIABLES
    isLive,                \* useState(false)
    mehuStatus,            \* useState('idle')
    messages,              \* useState<Message[]>([])
    sessionRef,            \* 0 = null, else the startLiveSession call whose session it holds
    audioContextRef,       \* 0 = null, else the call that created the context
    outputAudioContextRef, \* 0 = null, else the call that created the context
    nextStartTimeRef,      \* scheduling cursor
    sourcesRef,            \* set of chunk indexes (AudioBufferSourceNodes)
    calls,                 \* startLiveSession invocations and what each created
    chunks,                \* onmessage handlers that carried audio, in arrival order
    pendingReq,            \* one-shot generateContent requests awaiting an answer
    now,                   \* wall clock driving every AudioContext.currentTime
    threw,                 \* a handler has thrown an uncaught TypeError
    hist                   \* observation record for the transcript and playback claims

progVars == <<isLive, mehuStatus, messages, sessionRef, audioContextRef,
              outputAudioContextRef, nextStartTimeRef, sourcesRef, calls,
              chunks, pendingReq>>

vars == <<isLive, mehuStatus, messages, sessionRef, audioContextRef,
          outputAudioContextRef, nextStartTimeRef, sourcesRef, calls,
          chunks, pendingReq, now, threw, hist>>

\* ---------------------------------------------------------------- transcript
\* An identifier not used by any entry of prev.
FreshId(prev) ==
    CHOOSE i \in 1..(Len(prev) + 1) : \A j \in 1..Len(prev) : prev[j].id # i

\* Math.random().toString(): nothing compares the value with the ids in use,
\* so it is any value. Identifiers are only ever compared for equality, so a
\* draw is given by what it equals: draw 0 is a value no entry of prev has,
\* draw j the value entry j has.
Draws == 0..MaxMsgs

NoCollision == 0

RandomId(prev, draw) ==
    IF draw \in 1..Len(prev) THEN prev[draw].id ELSE FreshId(prev)

\* addMessage without the speaker test: any text containing the last entry's
\* text replaces it.
AddMessageAnyRole(prev, role, text, draw) ==
    IF /\ prev # <<>>
       /\ Includes(text, prev[Len(prev)].text)
    THEN [prev EXCEPT ![Len(prev)].text = text]
    ELSE Append(prev, [id |-> RandomId(prev, draw), role |-> role, text |-> text])

\* The updater addMessage passes to setMessages (timestamps are not modelled:
\* no code reads them).
AddMessage(prev, role, text, draw) ==
    IF /\ prev # <<>>
       /\ prev[Len(prev)].role = role
       /\ Includes(text, prev[Len(prev)].text)
    THEN [prev EXCEPT ![Len(prev)].text = text]
    ELSE Append(prev, [id |-> RandomId(prev, draw), role |-> role, text |-> text])

\* sub occurs in text: text = pre \o sub \o post for some pre and post.
Contains(text, sub) ==
    \E i \in 0..Len(text) : \E j \in i..Len(text) : SubSeq(text, i + 1, j) = sub

\* Observation of one addMessage call on transcript prev:
\*   run   the current run of same-speaker events, each text containing the
\*         one before, that began on a transcript whose last entry was not by
\*         that speaker (base = its length then);
\*   sw    addMessage calls since the transcript was last empty whose speaker
\*         differed from the last entry's (the first call included);
\*   alt   all calls since then were of that kind.
ObserveAdd(h, prev, role, text) ==
    LET differs == prev = <<>> \/ prev[Len(prev)].role # role
        cont == /\ h.run.on
                /\ h.run.role = role
                /\ Contains(text, h.run.text)
    IN [h EXCEPT
          !.run = IF differs
                  THEN [on |-> TRUE, role |-> role, base |-> Len(prev),
                        n |-> 1, text |-> text, grew |-> FALSE]
                  ELSE IF cont
                  THEN [h.run EXCEPT !.n = 2, !.text = text,
                                     !.grew = @ \/ Len(text) > Len(h.run.text)]
                  ELSE [h.run EXCEPT !.on = FALSE],
          !.sw = IF differs THEN @ + 1 ELSE @,
          !.alt = @ /\ differs]

NoRun == [on |-> FALSE, role |-> "user", base |-> 0, n |-> 0, text |-> <<>>,
          grew |-> FALSE]

\* A transcript together with its observation record.
Tr(m, h) == [m |-> m, h |-> h]

\* addMessage(role, text) applied to the pair.
Add(t, role, text, draw) ==
    Tr(AddMessage(t.m, role, text, draw), ObserveAdd(t.h, t.m, role, text))

\* addMessage for an optional field of a server message (lines 141-146).
AddOpt(t, role, opt, draw) ==
    IF opt = NoText THEN t ELSE Add(t, role, opt[1], draw)

\* ---------------------------------------------------------------- bookkeeping
\* Observation of playback:
\*   intrSeen   an interruption has been processed;
\*   afterIntr  an interruption has been processed and no audio message has
\*              arrived since;
\*   firstIdx   the first audio chunk received after the latest interruption
\*              that was followed by one (0: none);
\*   bumped     some audio chunk other than the first arrived with the
\*              playback clock ahead of the cursor;
\*   cutUpTo    the chunks 1..cutUpTo were received before an interruption
\*              signal that has been processed.
InitHist == [run |-> NoRun, sw |-> 0, alt |-> TRUE, intrSeen |-> FALSE,
             afterIntr |-> FALSE, firstIdx |-> 0, bumped |-> FALSE,
             cutUpTo |-> 0]

\* AudioContext.currentTime of the output context created by call c: every
\* context's clock starts at 0 when it is constructed and no output context
\* is ever suspended or closed.
CurrentTime(c) == now - calls[c].birth

\* The source of chunk ch has been started and has neither ended nor been
\* stopped; start and at (the time handed to start() and the clock at that
\* call) are kept only as long as that lasts.
Playing(ch) == ch.phase = "playing"

\* sourcesRef.current.forEach(s => s.stop())
StopAll(chs, srcs) ==
    [i \in DOMAIN chs |->
        IF i \in srcs
        THEN [chs[i] EXCEPT !.phase = "stopped", !.start = 0, !.at = 0]
        ELSE chs[i]]

\* ---------------------------------------------------------------- lifecycle
\* if (isLive) return;
StartGuard == isLive

\* startLiveSession up to its first await (getUserMedia).
StartLiveSession ==
    IF StartGuard
    THEN /\ threw' = threw
         /\ UNCHANGED <<progVars, now, hist>>
    ELSE /\ Len(calls) < MaxStarts
         /\ calls' = Append(calls, [pc |-> "getUserMedia", conn |-> "none",
                                    mic |-> 0, inCtx |-> "open",
                                    outCtx |-> "open", birth |-> now])
         /\ audioContextRef' = Len(calls) + 1
         /\ outputAudioContextRef' = Len(calls) + 1
         /\ threw' = threw
         /\ UNCHANGED <<isLive, mehuStatus, messages, sessionRef,
                        nextStartTimeRef, sourcesRef, chunks, pendingReq,
                        now, hist>>

\* getUserMedia resolves; ai.live.connect is called and awaited.
GetUserMediaOk(k) ==
    /\ calls[k].pc = "getUserMedia"
    /\ calls' = [calls EXCEPT ![k].pc = "connecting", ![k].conn = "connecting"]
    /\ threw' = threw
    /\ UNCHANGED <<isLive, mehuStatus, messages, sessionRef, audioContextRef,
                   outputAudioContextRef, nextStartTimeRef, sourcesRef,
                   chunks, pendingReq, now, hist>>

\* getUserMedia rejects (permission denied): the catch block.
GetUserMediaFail(k) ==
    /\ calls[k].pc = "getUserMedia"
    /\ calls' = [calls EXCEPT ![k].pc = "done"]
    /\ isLive' = FALSE
    /\ threw' = threw
    /\ UNCHANGED <<mehuStatus, messages, sessionRef, audioContextRef,
                   outputAudioContextRef, nextStartTimeRef, sourcesRef,
                   chunks, pendingReq, now, hist>>

\* The connection fails to open: sessionPromise rejects, the catch block.
ConnectFail(k) ==
    /\ calls[k].conn = "connecting"
    /\ calls' = [calls EXCEPT ![k].pc = "done", ![k].conn = "closed"]
    /\ isLive' = FALSE
    /\ threw' = threw
    /\ UNCHANGED <<mehuStatus, messages, sessionRef, audioContextRef,
                   outputAudioContextRef, nextStartTimeRef, sourcesRef,
                   chunks, pendingReq, now, hist>>

\* callbacks.onopen: audioContextRef.current! is dereferenced; when it is
\* null the callback throws after the two state setters have run.
OnOpen(k) ==
    /\ calls[k].conn = "connecting"
    /\ isLive' = TRUE
    /\ mehuStatus' = "listening"
    /\ calls' = [calls EXCEPT ![k].pc = "opened", ![k].conn = "open",
                              ![k].mic = audioContextRef]
    /\ threw' = (threw \/ audioContextRef = 0)
    /\ UNCHANGED <<messages, sessionRef, audioContextRef,
                   outputAudioContextRef, nextStartTimeRef, sourcesRef,
                   chunks, pendingReq, now, hist>>

\* sessionRef.current = await sessionPromise
SessionAssigned(k) ==
    /\ calls[k].pc = "opened"
    /\ calls' = [calls EXCEPT ![k].pc = "done"]
    /\ sessionRef' = k
    /\ threw' = threw
    /\ UNCHANGED <<isLive, mehuStatus, messages, audioContextRef,
                   outputAudioContextRef, nextStartTimeRef, sourcesRef,
                   chunks, pendingReq, now, hist>>

\* callbacks.onclose: the connection has closed, remotely or after close().
OnClose(k) ==
    /\ calls[k].conn \in {"open", "closing"}
    /\ calls' = [calls EXCEPT ![k].conn = "closed"]
    /\ isLive' = FALSE
    /\ threw' = threw
    /\ UNCHANGED <<mehuStatus, messages, sessionRef, audioContextRef,
                   outputAudioContextRef, nextStartTimeRef, sourcesRef,
                   chunks, pendingReq, now, hist>>

\* callbacks.onerror: the connection reports an error; its close follows.
OnError(k) ==
    /\ calls[k].conn = "open"
    /\ calls' = [calls EXCEPT ![k].conn = "closing"]
    /\ isLive' = FALSE
    /\ threw' = threw
    /\ UNCHANGED <<mehuStatus, messages, sessionRef, audioContextRef,
                   outputAudioContextRef, nextStartTimeRef, sourcesRef,
                   chunks, pendingReq, now, hist>>

\* The part of the state stopLiveSession reads or writes.
Cur == [isLive |-> isLive, mehuStatus |-> mehuStatus, sessionRef |-> sessionRef,
        audioContextRef |-> audioContextRef, calls |-> calls, threw |-> threw]

\* stopLiveSession with setMehuStatus('idle') left out.
StopStatusKept(status) == status

\* setMehuStatus('idle') of stopLiveSession
StopStatus(status) == "idle"

\* stopLiveSession as a function of that state: close() on the held session
\* starts the closing handshake (onclose follows), the input context is
\* closed, both refs are nulled; the output context is not touched.
Stop(st) ==
    [isLive |-> FALSE,
     mehuStatus |-> StopStatus(st.mehuStatus),
     sessionRef |-> 0,
     audioContextRef |-> 0,
     calls |-> [k \in DOMAIN st.calls |->
                  [st.calls[k] EXCEPT
                     !.conn = IF k = st.sessionRef /\ @ = "open"
                              THEN "closing" ELSE @,
                     !.inCtx = IF k = st.audioContextRef THEN "closed" ELSE @]],
     threw |-> st.threw]

StopLiveSession ==
    /\ isLive' = Stop(Cur).isLive
    /\ mehuStatus' = Stop(Cur).mehuStatus
    /\ sessionRef' = Stop(Cur).sessionRef
    /\ audioContextRef' = Stop(Cur).audioContextRef
    /\ calls' = Stop(Cur).calls
    /\ threw' = Stop(Cur).threw
    /\ UNCHANGED <<messages, outputAudioContextRef, nextStartTimeRef,
                   sourcesRef, chunks, pendingReq, now, hist>>

\* ---------------------------------------------------------------- onmessage
\* The interrupted branch with nextStartTimeRef.current = 0 left out.
InterruptCursorKept(cursor) == cursor

\* nextStartTimeRef.current = 0 of the interrupted branch
InterruptCursor(cursor) == 0

\* The tail of onmessage that follows the audio branch: the interrupted
\* branch, then the two transcription branches. chs, srcs, cursor and status
\* are the values the audio branch left, inDraw and outDraw the identifiers
\* drawn by the two addMessage calls, received the number of audio chunks
\* that had arrived when this message did (its own included).
MessageTail(chs, srcs, cursor, status, intr, inT, outT, inDraw, outDraw, received) ==
    LET t == AddOpt(AddOpt(Tr(messages, hist), "user", inT, inDraw),
                    "mehu", outT, outDraw)
    IN /\ Len(t.m) <= MaxMsgs
       /\ chunks' = IF intr THEN StopAll(chs, srcs) ELSE chs
       /\ sourcesRef' = IF intr THEN {} ELSE srcs
       /\ nextStartTimeRef' = IF intr THEN InterruptCursor(cursor) ELSE cursor
       /\ mehuStatus' = IF intr THEN "idle" ELSE status
       /\ messages' = t.m
       /\ hist' = [t.h EXCEPT !.afterIntr = IF intr THEN TRUE ELSE @,
                               !.intrSeen = IF intr THEN TRUE ELSE @,
                               !.cutUpTo = IF intr THEN Max(@, received) ELSE @]
       /\ threw' = threw

\* onmessage for a server message without inline audio: runs to completion.
OnMessage(k, intr, inT, outT, inDraw, outDraw) ==
    /\ calls[k].conn = "open"
    /\ MessageTail(chunks, sourcesRef, nextStartTimeRef, mehuStatus,
                   intr, inT, outT, inDraw, outDraw, Len(chunks))
    /\ UNCHANGED <<isLive, sessionRef, audioContextRef, outputAudioContextRef,
                   calls, pendingReq, now>>

\* nextStartTimeRef.current = Math.max(nextStartTimeRef.current, ctx.currentTime)
CursorAtReceipt(cursor, clock) == Max(cursor, clock)

\* onmessage for a server message with inline audio of duration d, up to
\* await decodeAudioData(...).
OnAudioMessage(k, d, intr, inT, outT) ==
    /\ calls[k].conn = "open"
    /\ Len(chunks) < MaxChunks
    /\ outputAudioContextRef # 0
    /\ mehuStatus' = "speaking"
    /\ nextStartTimeRef' =
           CursorAtReceipt(nextStartTimeRef, CurrentTime(outputAudioContextRef))
    /\ chunks' = Append(chunks,
           [dur |-> d, ctx |-> outputAudioContextRef, intr |-> intr,
            inT |-> inT, outT |-> outT, phase |-> "decoding",
            start |-> 0, at |-> 0])
    /\ hist' = [hist EXCEPT
                  !.afterIntr = FALSE,
                  !.firstIdx = IF hist.afterIntr THEN Len(chunks) + 1 ELSE @,
                  !.bumped = \/ @
                             \/ /\ chunks # <<>>
                                /\ CurrentTime(outputAudioContextRef) > nextStartTimeRef]
    /\ threw' = threw
    /\ UNCHANGED <<isLive, messages, sessionRef, audioContextRef,
                   outputAudioContextRef, sourcesRef, calls, pendingReq, now>>

\* nextStartTimeRef.current += audioBuffer.duration
CursorAfterStart(cursor, d) == cursor + d

\* The decode of handler c completes: the rest of onmessage. The source is
\* started at the cursor as it is now, the cursor advances, the source joins
\* sourcesRef; then the interrupted and transcription branches run.
DecodeDone(c, inDraw, outDraw) ==
    /\ chunks[c].phase = "decoding"
    /\ LET ch == chunks[c]
           chs == [chunks EXCEPT ![c].phase = "playing",
                                 ![c].start = nextStartTimeRef,
                                 ![c].at = CurrentTime(ch.ctx)]
       IN MessageTail(chs, sourcesRef \cup {c},
                      CursorAfterStart(nextStartTimeRef, ch.dur), mehuStatus,
                      ch.intr, ch.inT, ch.outT, inDraw, outDraw, c)
    /\ UNCHANGED <<isLive, sessionRef, audioContextRef, outputAudioContextRef,
                   calls, pendingReq, now>>

\* The instant playback of a started chunk finishes on its own.
EndAt(ch) == Max(ch.start, ch.at) + ch.dur

\* The 'ended' listener of source c: fired when the chunk has played to its
\* end, or after stop() was called on it. The source is dropped.
Ended(c) ==
    /\ \/ chunks[c].phase = "playing" /\ CurrentTime(chunks[c].ctx) >= EndAt(chunks[c])
       \/ chunks[c].phase = "stopped"
    /\ chunks' = [chunks EXCEPT ![c].phase = "ended", ![c].start = 0, ![c].at = 0]
    /\ sourcesRef' = sourcesRef \ {c}
    /\ mehuStatus' = IF sourcesRef \ {c} = {} THEN "idle" ELSE mehuStatus
    /\ threw' = threw
    /\ UNCHANGED <<isLive, messages, sessionRef, audioContextRef,
                   outputAudioContextRef, nextStartTimeRef, calls, pendingReq,
                   now, hist>>

\* Time passes. Before the first AudioContext exists no clock is read, so
\* the wall clock starts with it.
Tick ==
    /\ outputAudioContextRef # 0
    /\ now < MaxTime
    /\ now' = now + 1
    /\ UNCHANGED <<progVars, threw, hist>>

\* ---------------------------------------------------------------- text
\* handleSendText: blank input returns at once; otherwise the user entry is
\* added and the text goes over the held session or into a one-shot request.
\* if (isLive && sessionRef.current): the text goes over the held session.
OverSession == isLive /\ sessionRef # 0

HandleSendText(text, draw) ==
    IF Trim(text) = <<>>
    THEN /\ threw' = threw
         /\ UNCHANGED <<progVars, now, hist>>
    ELSE LET t == Add(Tr(messages, hist), "user", text, draw)
             live == OverSession
         IN /\ Len(t.m) <= MaxMsgs
            /\ messages' = t.m
            /\ hist' = t.h
            /\ IF live
               THEN /\ pendingReq' = pendingReq
                    /\ threw' = threw
               ELSE /\ pendingReq < MaxReq
                    /\ pendingReq' = pendingReq + 1
                    /\ threw' = threw
            /\ UNCHANGED <<isLive, mehuStatus, sessionRef, audioContextRef,
                           outputAudioContextRef, nextStartTimeRef, sourcesRef,
                           calls, chunks, now>>

\* generateContent resolves with reply text: addMessage('mehu', text || '...')
ReplyOk(text, draw) ==
    /\ pendingReq > 0
    /\ LET t == Add(Tr(messages, hist), "mehu",
                    IF text = <<>> THEN DotsText ELSE text, draw)
       IN /\ Len(t.m) <= MaxMsgs
          /\ messages' = t.m
          /\ hist' = t.h
    /\ pendingReq' = pendingReq - 1
    /\ threw' = threw
    /\ UNCHANGED <<isLive, mehuStatus, sessionRef, audioContextRef,
                   outputAudioContextRef, nextStartTimeRef, sourcesRef,
                   calls, chunks, now>>

\* generateContent rejects: the fallback entry.
ReplyFail(draw) ==
    /\ pendingReq > 0
    /\ LET t == Add(Tr(messages, hist), "mehu", FallbackText, draw)
       IN /\ Len(t.m) <= MaxMsgs
          /\ messages' = t.m
          /\ hist' = t.h
    /\ pendingReq' = pendingReq - 1
    /\ threw' = threw
    /\ UNCHANGED <<isLive, mehuStatus, sessionRef, audioContextRef,
                   outputAudioContextRef, nextStartTimeRef, sourcesRef,
                   calls, chunks, now>>

\* The "Flush Memory" button: setMessages([])
Clear ==
    /\ messages' = <<>>
    /\ hist' = [hist EXCEPT !.run = NoRun, !.sw = 0, !.alt = TRUE]
    /\ threw' = threw
    /\ UNCHANGED <<isLive, mehuStatus, sessionRef, audioContextRef,
                   outputAudioContextRef, nextStartTimeRef, sourcesRef,
                   calls, chunks, pendingReq, now>>

\* ---------------------------------------------------------------- systems
Init ==
    /\ isLive = FALSE
    /\ mehuStatus = "idle"
    /\ messages = <<>>
    /\ sessionRef = 0
    /\ audioContextRef = 0
    /\ outputAudioContextRef = 0
    /\ nextStartTimeRef = 0
    /\ sourcesRef = {}
    /\ calls = <<>>
    /\ chunks = <<>>
    /\ pendingReq = 0
    /\ now = 0
    /\ threw = FALSE
    /\ hist = InitHist

\* The continuations of a startLiveSession call that succeeds.
Opening ==
    \E k \in DOMAIN calls :
        \/ GetUserMediaOk(k)
        \/ OnOpen(k)
        \/ SessionAssigned(k)

\* The session lifecycle.
Lifecycle ==
    \/ StartLiveSession
    \/ Opening
    \/ StopLiveSession
    \/ \E k \in DOMAIN calls :
          \/ GetUserMediaFail(k)
          \/ ConnectFail(k)
          \/ OnClose(k)
          \/ OnError(k)

\* One session: startLiveSession is invoked once and succeeds.
OneSession ==
    \/ calls = <<>> /\ StartLiveSession
    \/ Opening

\* Inbound audio; the server messages carry no transcription (and so draw
\* no identifier).
Playback ==
    \/ \E k \in DOMAIN calls, intr \in BOOLEAN :
          OnMessage(k, intr, NoText, NoText, NoCollision, NoCollision)
    \/ \E k \in DOMAIN calls, d \in 1..MaxDur, intr \in BOOLEAN :
          OnAudioMessage(k, d, intr, NoText, NoText)
    \/ \E c \in DOMAIN chunks : DecodeDone(c, NoCollision, NoCollision)
    \/ \E c \in DOMAIN chunks : Ended(c)
    \/ Tick

\* Inbound transcriptions, one per server message (a message carrying both
\* makes the same two addMessage calls as two messages in a row), every
\* identifier drawn being one no entry has.
Transcription ==
    \/ \E k \in DOMAIN calls, inT \in OptTexts :
          OnMessage(k, FALSE, inT, NoText, NoCollision, NoCollision)
    \/ \E k \in DOMAIN calls, outT \in OptTexts :
          OnMessage(k, FALSE, NoText, outT, NoCollision, NoCollision)
    \/ Clear

\* Text input and the one-shot request, every identifier drawn being one no
\* entry has.
TextInput ==
    \/ \E text \in Texts : HandleSendText(text, NoCollision)
    \/ \E text \in Texts : ReplyOk(text, NoCollision)
    \/ ReplyFail(NoCollision)
    \/ Clear

\* Server messages of every shape.
Messages ==
    \/ \E k \in DOMAIN calls, intr \in BOOLEAN, inT \in OptTexts, outT \in OptTexts,
          inDraw \in Draws, outDraw \in Draws :
          OnMessage(k, intr, inT, outT, inDraw, outDraw)
    \/ \E k \in DOMAIN calls, d \in 1..MaxDur, intr \in BOOLEAN,
          inT \in OptTexts, outT \in OptTexts :
          OnAudioMessage(k, d, intr, inT, outT)
    \/ \E c \in DOMAIN chunks, inDraw \in Draws, outDraw \in Draws :
          DecodeDone(c, inDraw, outDraw)
    \/ \E c \in DOMAIN chunks : Ended(c)
    \/ Tick

\* Inbound transcriptions with identifiers of every kind.
TranscriptionAnyId ==
    \/ \E k \in DOMAIN calls, inT \in OptTexts, inDraw \in Draws :
          OnMessage(k, FALSE, inT, NoText, inDraw, NoCollision)
    \/ \E k \in DOMAIN calls, outT \in OptTexts, outDraw \in Draws :
          OnMessage(k, FALSE, NoText, outT, NoCollision, outDraw)
    \/ Clear

\* Text input with identifiers of every kind.
TextInputAnyId ==
    \/ \E text \in Texts, draw \in Draws : HandleSendText(text, draw)
    \/ \E text \in Texts, draw \in Draws : ReplyOk(text, draw)
    \/ \E draw \in Draws : ReplyFail(draw)
    \/ Clear

\* The ways a session ends: stopLiveSession, a remote close, an error.
Closing ==
    \/ StopLiveSession
    \/ \E k \in DOMAIN calls :
          \/ OnClose(k)
          \/ OnError(k)

\* The whole program.
Next == Lifecycle \/ Messages \/ TextInputAnyId

Spec == Init /\ [][Next]_vars

\* The session lifecycle alone.
NextLifecycle == Lifecycle

SpecLifecycle == Init /\ [][NextLifecycle]_vars

\* One session and the audio it delivers.
NextPlayback == OneSession \/ Playback

SpecPlayback == Init /\ [][NextPlayback]_vars

\* One session and the transcriptions it delivers.
NextTranscript == OneSession \/ Transcription

SpecTranscript == Init /\ [][NextTranscript]_vars

\* One session and the text the user submits.
NextText == OneSession \/ TextInput

SpecText == Init /\ [][NextText]_vars

\* One session, the audio it delivers, and its end.
NextClose == OneSession \/ Playback \/ Closing

SpecClose == Init /\ [][NextClose]_vars

\* One session and the transcriptions it delivers, with identifiers of every
\* kind.
NextIds == OneSession \/ TranscriptionAnyId

SpecIds == Init /\ [][NextIds]_vars

\* The session lifecycle and the text the user submits.
NextRouting == Lifecycle \/ TextInput

SpecRouting == Init /\ [][NextRouting]_vars

\* ---------------------------------------------------------------- claims
LastMsg == messages[Len(messages)]

\* C1: while a run of partial transcriptions of one speaker lasts (it began
\* on a transcript whose last entry was not by that speaker, and every text
\* contained the one before), the transcript holds exactly one entry for the
\* turn, one more than when the run began, and its text is the last text
\* received.
C1_OneEntryPerTurn ==
    hist.run.on =>
        /\ Len(messages) = hist.run.base + 1
        /\ LastMsg.role = hist.run.role
        /\ LastMsg.text = hist.run.text

\* A run of at least two events that began on a non-empty transcript and in
\* which the text grew.
C1_Witness ==
    /\ hist.run.on
    /\ hist.run.n = 2
    /\ hist.run.grew
    /\ hist.run.base >= 1
    /\ Len(messages) = hist.run.base + 1

\* C2: counted from an empty transcript, every event whose speaker differs
\* from the last entry's speaker has produced an entry of its own, whatever
\* its text; when all events so far were of that kind (strict alternation)
\* the entry count is the number of events, i.e. the switches plus one.
C2_SwitchAddsEntry ==
    /\ Len(messages) >= hist.sw
    /\ hist.alt => Len(messages) = hist.sw

\* Two alternating events where the second speaker's text contains the
\* first entry's text, and still two entries.
C2_Witness ==
    /\ hist.alt
    /\ hist.sw >= 2
    /\ Len(messages) >= 2
    /\ Contains(messages[2].text, messages[1].text)
    /\ messages[1].text # <<>>

RECURSIVE SumDur(_, _)
SumDur(chs, n) == IF n = 0 THEN 0 ELSE chs[n].dur + SumDur(chs, n - 1)

\* C3: while no interruption has been processed and no chunk after the
\* first has arrived with the clock ahead of the cursor, chunks k and k+1 in
\* arrival order, when the sources of both are playing, have
\* start(k+1) = start(k) + dk; and when every chunk has been started and the
\* first is still playing, the cursor is the first chunk's start plus the sum
\* of the durations.
C3_BackToBack ==
    (~hist.intrSeen /\ ~hist.bumped) =>
        /\ \A k \in 1..(Len(chunks) - 1) :
              (Playing(chunks[k]) /\ Playing(chunks[k + 1]))
              => chunks[k + 1].start = chunks[k].start + chunks[k].dur
        /\ ( /\ chunks # <<>>
             /\ Playing(chunks[1])
             /\ \A k \in DOMAIN chunks : chunks[k].phase # "decoding" )
           => nextStartTimeRef = chunks[1].start + SumDur(chunks, Len(chunks))

\* A step in which onmessage runs its interrupted branch: a message without
\* audio, or the continuation of one with audio.
InterruptStep ==
    \/ \E k \in DOMAIN calls :
          OnMessage(k, TRUE, NoText, NoText, NoCollision, NoCollision)
    \/ \E c \in DOMAIN chunks :
          chunks[c].intr /\ DecodeDone(c, NoCollision, NoCollision)

\* C4: right after onmessage has processed an interruption the cursor is 0,
\* sourcesRef is empty, every chunk that was in it has been stopped (none is
\* left playing) and the state is idle.
C4_InterruptResets ==
    [][InterruptStep =>
          /\ nextStartTimeRef' = 0
          /\ sourcesRef' = {}
          /\ mehuStatus' = "idle"
          /\ \A c \in sourcesRef : chunks'[c].phase = "stopped"
          /\ \A c \in DOMAIN chunks' : chunks'[c].phase # "playing"]_vars

\* An interruption has just been processed and a chunk it stopped has not
\* yet fired its 'ended' listener.
C4_Witness ==
    /\ hist.afterIntr
    /\ nextStartTimeRef = 0
    /\ sourcesRef = {}
    /\ mehuStatus = "idle"
    /\ \E c \in DOMAIN chunks : chunks[c].phase = "stopped" /\ chunks[c].dur > 0

\* C5: the first audio chunk received after an interruption starts at the
\* playback clock: while its source plays, the time that was handed to
\* start() is not later than the clock was at that call, so the chunk played
\* at once and was not queued behind a cursor.
C5_FirstChunkAtClock ==
    (hist.firstIdx # 0 /\ Playing(chunks[hist.firstIdx])) =>
        chunks[hist.firstIdx].start <= chunks[hist.firstIdx].at

\* C6: every stopLiveSession step leaves the state idle and not live, throws
\* nothing, and ends in a state that a further stopLiveSession call leaves
\* exactly as it is.
C6_StopIdempotent ==
    [][StopLiveSession =>
          /\ mehuStatus' = "idle"
          /\ ~isLive'
          /\ threw' = threw
          /\ (Stop(Cur) = Cur)']_vars

\* stopLiveSession has closed the input context of a session that had been
\* opened and has started closing the session; a second call finds no session.
C6_Witness ==
    /\ sessionRef = 0
    /\ audioContextRef = 0
    /\ ~isLive
    /\ mehuStatus = "idle"
    /\ \E k \in DOMAIN calls :
          calls[k].inCtx = "closed" /\ calls[k].conn \in {"closing", "closed"}

\* A non-blank submission made while no live session is active.
SubmitStep ==
    /\ ~isLive
    /\ \E text \in Texts : Trim(text) # <<>> /\ HandleSendText(text, NoCollision)

\* C7: a non-blank submission with no live session issues exactly one
\* one-shot request, and every answer to a request, reply or failure,
\* appends exactly one assistant entry.
C7_OneEntryPerSubmission ==
    [][ /\ SubmitStep => pendingReq' = pendingReq + 1
        /\ pendingReq' = pendingReq - 1 =>
              /\ Len(messages') = Len(messages) + 1
              /\ messages'[Len(messages')].role = "mehu" ]_vars

\* The microphone of call k is being forwarded: onopen attached a script
\* processor to an input context that is still open.
MicActive(k) == calls[k].mic # 0 /\ calls[calls[k].mic].inCtx = "open"

\* C8: at most one startLiveSession call is in progress or holds a
\* connection that is opening or open, and at most one microphone stream is
\* forwarded.
C8_SingleSession ==
    /\ Cardinality({k \in DOMAIN calls :
            calls[k].pc # "done" \/ calls[k].conn \in {"connecting", "open"}}) <= 1
    /\ Cardinality({k \in DOMAIN calls : MicActive(k)}) <= 1

\* C9: every onclose or onerror step leaves the state idle and the session
\* not live.
C9_CloseForcesIdle ==
    [][(\E k \in DOMAIN calls : OnClose(k) \/ OnError(k)) =>
          mehuStatus' = "idle" /\ ~isLive']_vars

\* C10: every stopLiveSession step closes the held session and releases the
\* input and the output context the refs held: both refs are null and both
\* contexts closed.
C10_StopReleasesContexts ==
    [][StopLiveSession =>
          /\ sessionRef' = 0
          /\ sessionRef # 0 => calls'[sessionRef].conn \in {"closing", "closed"}
          /\ audioContextRef' = 0
          /\ audioContextRef # 0 => calls'[audioContextRef].inCtx = "closed"
          /\ outputAudioContextRef' = 0
          /\ outputAudioContextRef # 0 =>
                calls'[outputAudioContextRef].outCtx = "closed"]_vars

\* A step that closes the session: stopLiveSession, onclose or onerror.
CloseStep ==
    \/ StopLiveSession
    \/ \E k \in DOMAIN calls : OnClose(k) \/ OnError(k)

\* C11: every step that closes the session leaves sourcesRef empty and no
\* chunk playing or queued (a started source that has neither ended nor been
\* stopped).
C11_CloseStopsPlayback ==
    [][CloseStep =>
          /\ sourcesRef' = {}
          /\ \A c \in DOMAIN chunks' : ~Playing(chunks'[c])]_vars

\* C12: of two chunks whose sources are both playing, the one whose message
\* arrived first is over, on the schedule, before the other begins:
\* start(A) + duration(A) <= start(B).
C12_ArrivalOrder ==
    \A a \in DOMAIN chunks : \A b \in DOMAIN chunks :
        (a < b /\ Playing(chunks[a]) /\ Playing(chunks[b])) =>
            chunks[a].start + chunks[a].dur <= chunks[b].start

\* A step in which startLiveSession fails: getUserMedia rejects or the
\* connection fails to open.
StartFails == \E k \in DOMAIN calls : GetUserMediaFail(k) \/ ConnectFail(k)

\* C13: every failure of startLiveSession is caught (nothing is thrown) and
\* leaves the state idle and the session not live.
C13_FailureResetsIdle ==
    [][StartFails =>
          /\ threw' = threw
          /\ mehuStatus' = "idle"
          /\ ~isLive']_vars

\* C14: every step leaves the transcript as it is, or changes only the text
\* of the last entry (same length, same id, same speaker, earlier entries
\* unchanged), or appends one entry whose id differs from every existing id
\* (existing entries unchanged), or is the clear action and empties it.
C14_EntriesNeverDeleted ==
    [][ \/ messages' = messages
        \/ /\ messages # <<>>
           /\ Len(messages') = Len(messages)
           /\ \A j \in 1..(Len(messages) - 1) : messages'[j] = messages[j]
           /\ messages'[Len(messages)].id = LastMsg.id
           /\ messages'[Len(messages)].role = LastMsg.role
        \/ /\ Len(messages') = Len(messages) + 1
           /\ \A j \in 1..Len(messages) : messages'[j] = messages[j]
           /\ \A j \in 1..Len(messages) :
                 messages[j].id # messages'[Len(messages) + 1].id
        \/ /\ Clear
           /\ messages' = <<>> ]_vars

\* A live session is active: some connection is open.
LiveActive == \E k \in DOMAIN calls : calls[k].conn = "open"

\* C15: a non-blank submission made while a live session is active goes over
\* the held session, which is open, and issues no one-shot request; one made
\* while no live session is active issues one request and goes over no
\* session.
C15_OneRoute ==
    [][\A text \in Texts :
          (Trim(text) # <<>> /\ HandleSendText(text, NoCollision)) =>
              IF LiveActive
              THEN /\ OverSession
                   /\ calls[sessionRef].conn = "open"
                   /\ pendingReq' = pendingReq
              ELSE /\ ~OverSession
                   /\ pendingReq' = pendingReq + 1]_vars

\* C16: a chunk received before an interruption signal that has been
\* processed is not playing and not in sourcesRef; and as long as no chunk has
\* arrived after the signal, sourcesRef is empty and the cursor is 0.
C16_NoStaleChunk ==
    /\ \A c \in 1..hist.cutUpTo : ~Playing(chunks[c]) /\ c \notin sourcesRef
    /\ (hist.intrSeen /\ Len(chunks) = hist.cutUpTo) =>
          (sourcesRef = {} /\ nextStartTimeRef = 0)

\* C17: whenever sourcesRef is not empty the state is speaking.
C17_SpeakingWhilePlaying ==
    sourcesRef # {} => mehuStatus = "speaking"

\* C18: no microphone is forwarded to a session that has ended: once the
\* connection of call k is closing or closed, the script processor that
\* onopen attached for it no longer runs.
C18_NoForwardAfterEnd ==
    \A k \in DOMAIN calls :
        calls[k].conn \in {"closing", "closed"} => ~MicActive(k)

\* C19: while no startLiveSession call has been made since the last
\* stopLiveSession (audioContextRef is null: only startLiveSession sets it and
\* only stopLiveSession clears it), the session is not live, the state is not
\* listening and no microphone is forwarded.
C19_StopIsFinal ==
    audioContextRef = 0 =>
        /\ ~isLive
        /\ mehuStatus # "listening"
        /\ \A k \in DOMAIN calls : ~MicActive(k)

\* C20: every submission of a non-blank text appends one user entry holding
\* the text, leaving every earlier entry (the previous last one included) as it
\* was; a blank submission changes nothing and issues no request.
C20_SubmissionAddsUserEntry ==
    [][\A text \in Texts :
          HandleSendText(text, NoCollision) =>
              IF Trim(text) = <<>>
              THEN messages' = messages /\ pendingReq' = pendingReq
              ELSE /\ Len(messages') = Len(messages) + 1
                   /\ \A j \in 1..Len(messages) : messages'[j] = messages[j]
                   /\ messages'[Len(messages')].role = "user"
                   /\ messages'[Len(messages')].text = text]_vars

====
